---- MODULE Spec2Model ----
(***************************************************************************)
(* Transcript-Tony: the identifier resolver (extract_video_id of app.py    *)
(* and tony.py), the captions strategy (get_youtube_transcript), the page  *)
(* strategy (try_alternative_transcript_method), the URL splitter          *)
(* (parse_video_urls) and the batch loop of app.py's main.                 *)
(*                                                                         *)
(* A Python str is a sequence of one-character strings.  Python's None is  *)
(* NoneVal, a str s is Some(s); a value is falsy when it is None or "".    *)
(***************************************************************************)
EXTENDS Integers, Sequences, FiniteSets, TLC

VARIABLES
    \* ---- identifier resolution, one call of extract_video_id per run
    inp,            \* the parts the input text is assembled from
    raw_url,        \* the argument of extract_video_id
    rpc,            \* "input" before the call, "resolved" after it
    idApp,          \* what app.py's extract_video_id returned
    idTony,         \* what tony.py's extract_video_id returned
    \* ---- app.py main, one click of "Extract and Download Transcripts"
    video_urls,             \* the batch, as parse_video_urls returned it
    language_preference,    \* the text of the language field ("" when left empty)
    use_browser,            \* the experimental checkbox
    pc,                     \* where main is
    i,                      \* the loop index, 1-based
    svc,                    \* the caption tracks the host has for video i
    success,
    transcript_text,
    video_id,
    alt_success,
    attempts,               \* the strategy calls made for video i, in order
    success_count,
    failure_count,
    transcripts_data,
    \* ---- the URL splitter, one call of parse_video_urls per run
    video_urls_input,   \* the text of the URL area
    ppc,                \* "input" before the call, "parsed" after it
    urls,               \* what parse_video_urls returned
    scanned             \* whether the whole-text findall of line 185 ran

rvars == <<inp, raw_url, rpc, idApp, idTony>>
mvars == <<video_urls, language_preference, use_browser, pc, i, svc, success,
           transcript_text, video_id, alt_success, attempts, success_count,
           failure_count, transcripts_data>>
pvars == <<video_urls_input, ppc, urls, scanned>>
vars == <<rvars, mvars, pvars>>

\* ------------------------------------------------------------ bounds
MaxParams == 2
MaxBatch == 2

\* ------------------------------------------------------- characters
Letters == {"a", "b", "c", "d", "e", "h", "i", "l", "m", "o", "p", "s", "t",
            "u", "v", "w", "x", "y", "z"}
Digits == {"1", "2", "3", "5", "9"}
Whitespace == {" ", "\n", "\r"}

S_https == <<"h", "t", "t", "p", "s", ":", "/", "/">>
S_http == <<"h", "t", "t", "p", ":", "/", "/">>
H_www == <<"w", "w", "w", ".", "y", "o", "u", "t", "u", "b", "e", ".", "c", "o", "m">>
H_bare == <<"y", "o", "u", "t", "u", "b", "e", ".", "c", "o", "m">>
H_m == <<"m", ".", "y", "o", "u", "t", "u", "b", "e", ".", "c", "o", "m">>
H_short == <<"y", "o", "u", "t", "u", ".", "b", "e">>
H_other == <<"v", "i", "m", "e", "o", ".", "c", "o", "m">>
ID1 == <<"a", "b", "c", "1", "2", "3">>
ID2 == <<"x", "-", "_", "9">>
P_watch == <<"/", "w", "a", "t", "c", "h">>
P_root == <<"/">>
P_live == <<"/", "l", "i", "v", "e">>
P_embed == <<"/", "e", "m", "b", "e", "d">>
P_v == <<"/", "v">>
P_shorts == <<"/", "s", "h", "o", "r", "t", "s">>
Q_list == <<"l", "i", "s", "t", "=", "x", "y", "z">>
Q_t == <<"t", "=", "5">>
K_v == <<"v">>

NoneVal == [some |-> FALSE, val |-> <<>>]
Some(s) == [some |-> TRUE, val |-> s]
Truthy(x) == x.some /\ x.val # <<>>

\* --------------------------------------------------- Python str methods
\* str.find(c), 1-based; 0 when c does not occur
Find(s, c) ==
    LET I == {k \in 1..Len(s) : s[k] = c}
    IN  IF I = {} THEN 0 ELSE CHOOSE k \in I : \A j \in I : k <= j

\* str.rfind(c), 1-based; 0 when c does not occur
RFind(s, c) ==
    LET I == {k \in 1..Len(s) : s[k] = c}
    IN  IF I = {} THEN 0 ELSE CHOOSE k \in I : \A j \in I : k >= j

\* s[k:] with k 0-based, as Python slices it (empty past the end)
From(s, k) == IF k >= Len(s) THEN <<>> ELSE SubSeq(s, k + 1, Len(s))

\* s[:k] with k 0-based
Upto(s, k) == IF k <= 0 THEN <<>> ELSE SubSeq(s, 1, IF k > Len(s) THEN Len(s) ELSE k)

RECURSIVE Split(_, _)
\* str.split(c)
Split(s, c) ==
    LET k == Find(s, c)
    IN  IF k = 0 THEN <<s>>
        ELSE <<Upto(s, k - 1)>> \o Split(From(s, k), c)

\* str.split(c, 1)
Split1(s, c) ==
    LET k == Find(s, c)
    IN  IF k = 0 THEN <<s>> ELSE <<Upto(s, k - 1), From(s, k)>>

RECURSIVE LStrip(_)
LStrip(s) == IF s # <<>> /\ Head(s) \in Whitespace THEN LStrip(Tail(s)) ELSE s

RECURSIVE RStrip(_)
RStrip(s) ==
    IF s # <<>> /\ s[Len(s)] \in Whitespace THEN RStrip(Upto(s, Len(s) - 1)) ELSE s

\* str.strip()
Strip(s) == RStrip(LStrip(s))

\* str.replace("+", " ")
PlusToSpace(s) == [k \in 1..Len(s) |-> IF s[k] = "+" THEN " " ELSE s[k]]

\* str.lower(): the upper-case letters a scheme can be written in
LowerChar(c) ==
    CASE c = "H" -> "h" [] c = "T" -> "t" [] c = "P" -> "p" [] c = "S" -> "s"
      [] OTHER -> c
Lower(s) == [k \in 1..Len(s) |-> LowerChar(s[k])]

\* ------------------------------------------------------- urllib.parse
SchemeChars == Letters \cup Digits \cup {"H", "T", "P", "S", "+", "-", "."}
\* urllib.parse.uses_params, the schemes the alphabet can spell
UsesParams == {<<>>, <<"h", "t", "t", "p">>, <<"h", "t", "t", "p", "s">>}

\* urlsplit, its end: "#fragment" and then "?query" are cut off what follows
\* the netloc
SplitRest(scheme, netloc, rest) ==
    LET hs == Split1(rest, "#")
        qs == Split1(hs[1], "?")
    IN  [scheme |-> scheme, netloc |-> netloc, path |-> qs[1],
         query |-> IF Len(qs) = 2 THEN qs[2] ELSE <<>>,
         fragment |-> IF Len(hs) = 2 THEN hs[2] ELSE <<>>]

\* urllib.parse._splitnetloc(url, 2): where the netloc ends, 1-based
Delim(url) ==
    LET D == {k \in 3..Len(url) : url[k] \in {"/", "?", "#"}}
    IN  IF D = {} THEN Len(url) + 1 ELSE CHOOSE k \in D : \A j \in D : k <= j

\* urlsplit, its middle: "//netloc" is cut off what follows the scheme
SplitNetloc(scheme, url) ==
    IF Len(url) >= 2 /\ url[1] = "/" /\ url[2] = "/"
    THEN SplitRest(scheme, From(Upto(url, Delim(url) - 1), 2), From(url, Delim(url) - 1))
    ELSE SplitRest(scheme, <<>>, url)

\* urlsplit, its start: "scheme:" is cut off when what precedes the first ":"
\* (at colon, 1-based) is a letter followed by scheme characters
SplitScheme(url, colon) ==
    IF /\ colon > 1
       /\ url[1] \in Letters \cup {"H", "T", "P", "S"}
       /\ \A k \in 1..(colon - 1) : url[k] \in SchemeChars
    THEN SplitNetloc(Lower(Upto(url, colon - 1)), From(url, colon))
    ELSE SplitNetloc(<<>>, url)

\* urllib.parse.urlsplit (leading blanks are stripped first)
urlsplit(url) == SplitScheme(LStrip(url), Find(LStrip(url), ":"))

\* urllib.parse._splitparams: ";params" of the last path segment
splitparams(url) ==
    LET slash == RFind(url, "/")
        J == {k \in 1..Len(url) : url[k] = ";" /\ (slash = 0 \/ k > slash)}
        semi == IF J = {} THEN 0 ELSE CHOOSE k \in J : \A j \in J : k <= j
    IN  IF semi = 0 THEN <<url, <<>>>> ELSE <<Upto(url, semi - 1), From(url, semi)>>

\* urlparse, after urlsplit: the params are cut off the path
WithParams(sp, pp) ==
    [scheme |-> sp.scheme, netloc |-> sp.netloc, path |-> pp[1],
     params |-> pp[2], query |-> sp.query, fragment |-> sp.fragment]

SplitParamsOf(sp) ==
    IF sp.scheme \in UsesParams /\ Find(sp.path, ";") # 0
    THEN WithParams(sp, splitparams(sp.path))
    ELSE WithParams(sp, <<sp.path, <<>>>>)

\* urllib.parse.urlparse
urlparse(url) == SplitParamsOf(urlsplit(url))

\* urllib.parse.parse_qsl: the (name, value) pairs of the fields that have "="
\* and a non-blank value; "+" decodes to a space ("%" is not in the alphabet)
parse_qsl(qs) ==
    LET fields == Split(qs, "&")
        pair(f) == Split1(f, "=")
        keep(f) == f # <<>> /\ Len(pair(f)) = 2 /\ pair(f)[2] # <<>>
        kept == SelectSeq(fields, keep)
    IN  [k \in 1..Len(kept) |->
            <<PlusToSpace(pair(kept[k])[1]), PlusToSpace(pair(kept[k])[2])>>]

\* urllib.parse.parse_qs(qs).get(name): the values of name in order, <<>> for None
parse_qs_get(qs, name) ==
    LET named(p) == p[1] = name
        ps == SelectSeq(parse_qsl(qs), named)
    IN  [k \in 1..Len(ps) |-> ps[k][2]]

\* ------------------------------------------------- identifier resolver
SupportedHosts == {H_www, H_bare, H_m, H_short}
CanonicalHosts == {H_www, H_bare, H_m}

\* app.py lines 17-21: strip, and cut at the first "&"
Truncate(u) == IF Find(u, "&") # 0 THEN Split(u, "&")[1] ELSE u

\* app.py lines 24-33 with line 27 written without the [1:]: the "/" is kept
FromParsed_keepSlash(parsed_url, video_ids) ==
    IF parsed_url.netloc \notin SupportedHosts THEN NoneVal
    ELSE IF parsed_url.netloc = H_short
         THEN Some(Split(parsed_url.path, "?")[1])
    ELSE IF parsed_url.query # <<>> /\ video_ids # <<>> THEN Some(video_ids[1])
    ELSE NoneVal

\* app.py lines 24-33: the identifier of a parsed URL; video_ids is
\* parse_qs(parsed_url.query).get('v')
FromParsed(parsed_url, video_ids) ==
    IF parsed_url.netloc \notin SupportedHosts THEN NoneVal
    ELSE IF parsed_url.netloc = H_short
         THEN Some(Split(From(parsed_url.path, 1), "?")[1])
    ELSE IF parsed_url.query # <<>> /\ video_ids # <<>> THEN Some(video_ids[1])
    ELSE NoneVal

ResolveParsed(parsed_url) == FromParsed(parsed_url, parse_qs_get(parsed_url.query, K_v))

\* app.py extract_video_id
extract_video_id(video_url) == ResolveParsed(urlparse(Truncate(Strip(video_url))))

\* tony.py lines 17-26
TonyFromParsed(parsed_url, video_ids) ==
    IF parsed_url.netloc \notin SupportedHosts THEN NoneVal
    ELSE IF parsed_url.netloc = H_short THEN Some(From(parsed_url.path, 1))
    ELSE IF parsed_url.query # <<>> /\ video_ids # <<>> THEN Some(video_ids[1])
    ELSE NoneVal

TonyResolveParsed(parsed_url) ==
    TonyFromParsed(parsed_url, parse_qs_get(parsed_url.query, K_v))

\* tony.py extract_video_id
tony_extract_video_id(video_url) == TonyResolveParsed(urlparse(video_url))

\* ------------------------------------------- inputs of the resolver
Schemes == {S_https, S_http}
Hosts == SupportedHosts \cup {H_other}
IDS == {ID1, ID2}
Paths == {P_watch, P_root, <<"/">> \o ID1, P_live \o <<"/">> \o ID1, P_live \o <<"/">>,
          P_embed \o <<"/">> \o ID1, P_v \o <<"/">> \o ID1, P_shorts \o <<"/">> \o ID1}
VParam(id) == K_v \o <<"=">> \o id
ParamSet == {VParam(ID1), VParam(ID2), VParam(<<>>), Q_list, Q_t}
ParamLists == UNION {[1..n -> ParamSet] : n \in 0..MaxParams}

RECURSIVE JoinAmp(_)
JoinAmp(ps) ==
    IF ps = <<>> THEN <<>>
    ELSE IF Len(ps) = 1 THEN ps[1]
    ELSE ps[1] \o <<"&">> \o JoinAmp(Tail(ps))

Inputs == [scheme : Schemes, host : Hosts, path : Paths, params : ParamLists,
           pad : BOOLEAN]

\* the text of an input: scheme://host/path?p1&p2..., in blanks when padded
Build(x) ==
    LET q == IF x.params = <<>> THEN <<>> ELSE <<"?">> \o JoinAmp(x.params)
        u == x.scheme \o x.host \o x.path \o q
    IN  IF x.pad THEN <<" ">> \o u \o <<" ">> ELSE u

NoInput == [scheme |-> <<>>, host |-> <<>>, path |-> <<>>, params |-> <<>>, pad |-> FALSE]
NoService == [disabled |-> FALSE, manual |-> {}, generated |-> {}]
NoText == [kind |-> "message", track |-> [lang |-> "", is_generated |-> FALSE], msg |-> ""]

\* main is not running
MainIdle ==
    /\ video_urls = <<>>
    /\ language_preference = ""
    /\ use_browser = FALSE
    /\ pc = "idle"
    /\ i = 1
    /\ svc = NoService
    /\ success = FALSE
    /\ transcript_text = NoText
    /\ video_id = NoneVal
    /\ alt_success = FALSE
    /\ attempts = <<>>
    /\ success_count = 0
    /\ failure_count = 0
    /\ transcripts_data = <<>>

\* parse_video_urls is not running
ParseIdle ==
    /\ video_urls_input = <<>>
    /\ ppc = "idle"
    /\ urls = <<>>
    /\ scanned = FALSE

InitResolve ==
    /\ MainIdle
    /\ ParseIdle
    /\ inp \in Inputs
    /\ raw_url = Build(inp)
    /\ rpc = "input"
    /\ idApp = NoneVal
    /\ idTony = NoneVal

\* one call of extract_video_id on the same text in each variant
Resolve ==
    /\ rpc = "input"
    /\ idApp' = extract_video_id(raw_url)
    /\ idTony' = tony_extract_video_id(raw_url)
    /\ rpc' = "resolved"
    /\ UNCHANGED <<inp, raw_url>>
    /\ UNCHANGED mvars
    /\ UNCHANGED pvars

NextResolve == Resolve
SpecResolve == InitResolve /\ [][NextResolve]_vars

\* ------------------------------------------- youtube_transcript_api
\* What the library raises: NoTranscriptFound, TranscriptsDisabled, or any other
\* exception ("Error": a network failure, VideoUnavailable, ...).
Exceptions == {"NoTranscriptFound", "TranscriptsDisabled", "Error"}
\* What a library call meets on the way: nothing, or one of the exceptions
Faults == {"none"} \cup Exceptions
TrackLangs == {"en", "fr"}
\* The host's captions for one video: its manual and generated tracks, or
\* captions turned off (no track is then visible to any call)
Services ==
    [disabled : {FALSE}, manual : SUBSET TrackLangs, generated : SUBSET TrackLangs]
    \cup {[disabled |-> TRUE, manual |-> {}, generated |-> {}]}
NoTrack == [lang |-> "", is_generated |-> FALSE]
Track(l, g) == [lang |-> l, is_generated |-> g]
Ok(t) == [exc |-> "none", track |-> t]
Raise(e) == [exc |-> e, track |-> NoTrack]

RECURSIVE FindIn(_, _, _)
\* TranscriptList._find_transcript: per language code, the manual track before
\* the generated one (useManual, useGenerated: which dictionaries are searched)
FindIn(s, codes, dicts) ==
    IF codes = <<>> THEN Raise("NoTranscriptFound")
    ELSE IF dicts.manual /\ Head(codes) \in s.manual THEN Ok(Track(Head(codes), FALSE))
    ELSE IF dicts.generated /\ Head(codes) \in s.generated THEN Ok(Track(Head(codes), TRUE))
    ELSE FindIn(s, Tail(codes), dicts)

find_transcript(s, codes) == FindIn(s, codes, [manual |-> TRUE, generated |-> TRUE])
find_generated_transcript(s, codes) == FindIn(s, codes, [manual |-> FALSE, generated |-> TRUE])

\* YouTubeTranscriptApi.list_transcripts
list_transcripts(s, fault) ==
    IF fault # "none" THEN fault
    ELSE IF s.disabled THEN "TranscriptsDisabled"
    ELSE "none"

\* YouTubeTranscriptApi.get_transcript(video_id, languages): list, find, fetch
get_transcript(s, codes, fault) ==
    IF list_transcripts(s, fault) # "none" THEN Raise(list_transcripts(s, fault))
    ELSE find_transcript(s, codes)

\* Transcript.fetch
fetch(fault) == fault

\* iterating a TranscriptList: the manual tracks, then the generated ones;
\* next(t for t in transcript_list if t.is_generated): the first generated one
FirstGenerated(s) ==
    IF s.generated = {} THEN NoTrack
    ELSE Track(CHOOSE l \in s.generated : \A m \in s.generated : l = "en" \/ m # "en", TRUE)

\* ------------------------------------------ app.py get_youtube_transcript
NonePref == "None"
PrefTruthy(lp) == lp \notin {NonePref, ""}
Text(t) == [kind |-> "transcript", track |-> t, msg |-> ""]
Message(m) == [kind |-> "message", track |-> NoTrack, msg |-> m]
\* a library call made: k is its place among the four the function can make
Call(k, name, e) == [pos |-> k, call |-> name, exc |-> e]
\* what a call of get_youtube_transcript comes to: the triple it returns, or the
\* exception it lets through, and the library calls it made
Returned(ok, text, lib) == [raised |-> "none", success |-> ok, text |-> text, lib |-> lib]
Propagated(e, lib) == [raised |-> e, success |-> FALSE, text |-> Message("exception"), lib |-> lib]

\* lines 51-55
Languages(lp) ==
    LET l1 == IF PrefTruthy(lp) THEN <<lp>> ELSE <<>>
    IN  IF \E k \in 1..Len(l1) : l1[k] = "en" THEN l1 ELSE l1 \o <<"en">>

\* lines 75-96 with the try of line 77 left without its except of line 94
FallbackNoTranscript_noExcept(s, f, lib) ==
    LET l == list_transcripts(s, f[3])
        lib1 == lib \o <<Call(3, "list_transcripts", l)>>
        g == find_generated_transcript(s, <<"en">>)
        ft == fetch(f[4])
        lib2 == lib1 \o <<Call(4, "fetch", ft)>>
    IN  IF l # "none" THEN Propagated(l, lib1)
        ELSE IF g.exc # "none" THEN Propagated(g.exc, lib1)
        ELSE IF ft # "none" THEN Propagated(ft, lib2)
        ELSE Returned(TRUE, Text(g.track), lib2)

\* lines 75-96: the handler of NoTranscriptFound.  find_generated_transcript
\* raises when it finds nothing, so the "or" chain of lines 79-82 ends at its
\* first operand: it returns a (truthy) track or raises into line 94.
FallbackNoTranscript(s, f, lib) ==
    LET l == list_transcripts(s, f[3])
        lib1 == lib \o <<Call(3, "list_transcripts", l)>>
        g == find_generated_transcript(s, <<"en">>)
        ft == fetch(f[4])
        lib2 == lib1 \o <<Call(4, "fetch", ft)>>
    IN  IF l # "none" THEN Returned(FALSE, Message("No transcript available (Fallback failed)"), lib1)
        ELSE IF g.exc # "none"
             THEN Returned(FALSE, Message("No transcript available (Fallback failed)"), lib1)
        ELSE IF ft # "none"
             THEN Returned(FALSE, Message("No transcript available (Fallback failed)"), lib2)
        ELSE Returned(TRUE, Text(g.track), lib2)

\* lines 98-117: the handler of TranscriptsDisabled
FallbackDisabled(s, f, lib) ==
    LET l == list_transcripts(s, f[3])
        lib1 == lib \o <<Call(3, "list_transcripts", l)>>
        auto_transcript == FirstGenerated(s)
        ft == fetch(f[4])
        lib2 == lib1 \o <<Call(4, "fetch", ft)>>
    IN  IF l # "none" THEN Returned(FALSE, Message("Transcripts are disabled"), lib1)
        ELSE IF auto_transcript = NoTrack
             THEN Returned(FALSE, Message("Transcripts are disabled"), lib1)
        ELSE IF ft # "none" THEN Returned(FALSE, Message("Transcripts are disabled"), lib2)
        ELSE Returned(TRUE, Text(auto_transcript), lib2)

\* lines 49-121: the captions-library part, for a video id that was resolved.
\* f[1] is met by the first get_transcript, f[2] by the one of line 67,
\* f[3] by list_transcripts and f[4] by fetch.
Retrieve(lp, s, f) ==
    LET languages == Languages(lp)
        c1 == IF languages # <<>> THEN get_transcript(s, languages, f[1])
              ELSE get_transcript(s, <<"en">>, f[1])
        lib1 == <<Call(1, "get_transcript", c1.exc)>>
        c2 == get_transcript(s, <<"en">>, f[2])
        lib2 == lib1 \o <<Call(2, "get_transcript", c2.exc)>>
        c == IF c1.exc = "NoTranscriptFound" THEN c2 ELSE c1
        lib == IF c1.exc = "NoTranscriptFound" THEN lib2 ELSE lib1
    IN  CASE c.exc = "none" -> Returned(TRUE, Text(c.track), lib)
          [] c.exc = "NoTranscriptFound" -> FallbackNoTranscript(s, f, lib)
          [] c.exc = "TranscriptsDisabled" -> FallbackDisabled(s, f, lib)
          [] OTHER -> Returned(FALSE, Message("Error extracting transcript"), lib)

\* ---- the texts main is given
U(h, p, ps) == Build([scheme |-> S_https, host |-> h, path |-> p, params |-> ps, pad |-> FALSE])
\* the texts a batch is made of: one that resolves, and two that do not
\* (another host: None; a short link without an identifier: "")
GoodUrls == {U(H_www, P_watch, <<VParam(ID1), Q_list>>)}
NoIdUrls == {U(H_other, P_watch, <<VParam(ID1)>>), U(H_short, P_root, <<>>)}
MainUrls == GoodUrls \cup NoIdUrls

\* line 44: extract_video_id(video_url) for the texts of a batch, computed once
VideoIdOf == [u \in MainUrls |-> extract_video_id(u)]

\* lines 44-47 written without the return of line 47
get_youtube_transcript_noEarlyReturn(video_url, lp, s, f) ==
    Retrieve(lp, s, f) @@ [video_id |-> VideoIdOf[video_url]]

\* app.py get_youtube_transcript
get_youtube_transcript(video_url, lp, s, f) ==
    LET vid == VideoIdOf[video_url]
    IN  (IF ~Truthy(vid)
         THEN Returned(FALSE, Message("Error: Could not extract video ID"), <<>>)
         ELSE Retrieve(lp, s, f)) @@ [video_id |-> vid]

\* ------------------------------ app.py try_alternative_transcript_method
PageOutcomes == {"200", "non200", "exception"}
TimedTextOutcomes == {"200text", "200empty", "non200", "exception"}

\* lines 124-150: page is what the GET of the watch page comes to, tt what the
\* GET of the timedtext endpoint comes to; gets are the requests sent
try_alternative_transcript_method(vid, page, tt) ==
    IF page = "exception"
    THEN [ok |-> FALSE, msg |-> "Alternative method failed", gets |-> <<"page">>]
    ELSE IF page # "200"
    THEN [ok |-> FALSE, msg |-> "Could not access video page", gets |-> <<"page">>]
    ELSE IF tt = "exception"
    THEN [ok |-> FALSE, msg |-> "Alternative transcript fetch failed",
          gets |-> <<"page", "timedtext">>]
    ELSE IF tt = "200text"
    THEN [ok |-> TRUE, msg |-> "Successfully retrieved transcript using alternative method",
          gets |-> <<"page", "timedtext">>]
    ELSE [ok |-> FALSE, msg |-> "Alternative transcript method failed",
          gets |-> <<"page", "timedtext">>]

\* ----------------------------------------------------------- app.py main
Batches == UNION {[1..n -> MainUrls] : n \in 0..MaxBatch}
LanguageInputs == {"", "fr"}
FaultFns == [1..4 -> Faults]

\* line 239: language_preference if language_preference else None
PrefArg(lp) == IF lp # "" THEN lp ELSE NonePref

\* f names a fault only for the library calls that r made
Met(r, f) == \A k \in 1..4 : f[k] = "none" \/ \E j \in 1..Len(r.lib) : r.lib[j].pos = k

\* what is recorded of a strategy call: lib is the number of library calls made,
\* gets the HTTP requests sent, clean whether no call met a fault
CaptionsAttempt(lp, r, f) ==
    [strategy |-> "captions", pref |-> lp, ok |-> r.success, raised |-> r.raised,
     obtained |-> r.text.kind = "transcript", lib |-> Len(r.lib), gets |-> <<>>, page |-> "", clean |-> \A k \in 1..4 : f[k] = "none"]
PageAttempt(r, page) ==
    [strategy |-> "page", pref |-> NonePref, ok |-> r.ok, raised |-> "none",
     obtained |-> FALSE, lib |-> 0, gets |-> r.gets, page |-> page,
     clean |-> TRUE]

Init ==
    /\ ParseIdle
    /\ inp = NoInput
    /\ raw_url = <<>>
    /\ rpc = "idle"
    /\ idApp = NoneVal
    /\ idTony = NoneVal
    /\ video_urls \in Batches
    /\ language_preference \in LanguageInputs
    /\ use_browser \in BOOLEAN
    /\ pc = "start"
    /\ i = 1
    /\ svc = NoService
    /\ success = FALSE
    /\ transcript_text = NoText
    /\ video_id = NoneVal
    /\ alt_success = FALSE
    /\ attempts = <<>>
    /\ success_count = 0
    /\ failure_count = 0
    /\ transcripts_data = <<>>

\* lines 213-228: an empty batch is warned about, anything else is processed
Start ==
    /\ pc = "start"
    /\ pc' = IF video_urls = <<>> THEN "done" ELSE "next_video"
    /\ UNCHANGED <<video_urls, language_preference, use_browser, i, svc, success,
                   transcript_text, video_id, alt_success, attempts, success_count,
                   failure_count, transcripts_data>>
    /\ UNCHANGED rvars
    /\ UNCHANGED pvars

\* lines 230-240: the next video of the batch and its first retrieval; an
\* exception get_youtube_transcript lets through ends main
StdCall ==
    /\ pc = "next_video"
    /\ i <= Len(video_urls)
    /\ \E s \in Services, f \in FaultFns :
        LET r == get_youtube_transcript(video_urls[i], PrefArg(language_preference), s, f)
        IN  /\ Met(r, f)
            /\ svc' = s
            /\ success' = r.success
            /\ transcript_text' = r.text
            /\ video_id' = r.video_id
            /\ attempts' = <<CaptionsAttempt(PrefArg(language_preference), r, f)>>
            /\ pc' = IF r.raised # "none" THEN "crashed" ELSE "after_std"
    /\ alt_success' = FALSE
    /\ UNCHANGED <<video_urls, language_preference, use_browser, i, success_count,
                   failure_count, transcripts_data>>
    /\ UNCHANGED rvars
    /\ UNCHANGED pvars

\* line 243 with "not success" left out
AltGuard_noSuccessTest(succ, ub, vid) == ub /\ Truthy(vid)

\* line 243: if not success and use_browser and video_id
AltGuard(succ, ub, vid) == ~succ /\ ub /\ Truthy(vid)

\* lines 243-246: the experimental method
TryAlternative ==
    /\ pc = "after_std"
    /\ AltGuard(success, use_browser, video_id)
    /\ \E page \in PageOutcomes, tt \in TimedTextOutcomes :
        LET r == try_alternative_transcript_method(video_id, page, tt)
        IN  /\ alt_success' = r.ok
            /\ attempts' = Append(attempts, PageAttempt(r, page))
            /\ pc' = IF r.ok THEN "retry" ELSE "report"
    /\ UNCHANGED <<video_urls, language_preference, use_browser, i, svc, success,
                   transcript_text, video_id, success_count, failure_count,
                   transcripts_data>>
    /\ UNCHANGED rvars
    /\ UNCHANGED pvars

\* line 243, the condition false
SkipAlternative ==
    /\ pc = "after_std"
    /\ ~AltGuard(success, use_browser, video_id)
    /\ pc' = "report"
    /\ UNCHANGED <<video_urls, language_preference, use_browser, i, svc, success,
                   transcript_text, video_id, alt_success, attempts, success_count,
                   failure_count, transcripts_data>>
    /\ UNCHANGED rvars
    /\ UNCHANGED pvars

\* lines 246-249 reporting the experimental method's own result
RetryStd_keepAlt ==
    /\ pc = "retry"
    /\ success' = alt_success
    /\ transcript_text' = Message("Successfully retrieved transcript using alternative method")
    /\ pc' = "report"
    /\ UNCHANGED <<video_urls, language_preference, use_browser, i, svc, video_id,
                   alt_success, attempts, success_count, failure_count,
                   transcripts_data>>
    /\ UNCHANGED rvars
    /\ UNCHANGED pvars

\* lines 246-249: success, transcript_text, _ = get_youtube_transcript(video_url)
RetryStd ==
    /\ pc = "retry"
    /\ \E f \in FaultFns :
        LET r == get_youtube_transcript(video_urls[i], NonePref, svc, f)
        IN  /\ Met(r, f)
            /\ success' = r.success
            /\ transcript_text' = r.text
            /\ attempts' = Append(attempts, CaptionsAttempt(NonePref, r, f))
            /\ pc' = IF r.raised # "none" THEN "crashed" ELSE "report"
    /\ UNCHANGED <<video_urls, language_preference, use_browser, i, svc, video_id,
                   alt_success, success_count, failure_count, transcripts_data>>
    /\ UNCHANGED rvars
    /\ UNCHANGED pvars

\* lines 251-272: the video is counted as a success or as a failure
Report ==
    /\ pc = "report"
    /\ IF success
       THEN /\ success_count' = success_count + 1
            /\ transcripts_data' = Append(transcripts_data, <<i, transcript_text>>)
            /\ UNCHANGED failure_count
       ELSE /\ failure_count' = failure_count + 1
            /\ UNCHANGED <<success_count, transcripts_data>>
    /\ i' = i + 1
    /\ pc' = "next_video"
    /\ svc' = NoService
    /\ attempts' = <<>>
    /\ UNCHANGED <<video_urls, language_preference, use_browser, success,
                   transcript_text, video_id, alt_success>>
    /\ UNCHANGED rvars
    /\ UNCHANGED pvars

\* lines 274-291: the summary, after the last video
Finish ==
    /\ pc = "next_video"
    /\ i > Len(video_urls)
    /\ pc' = "done"
    /\ UNCHANGED <<video_urls, language_preference, use_browser, i, svc, success,
                   transcript_text, video_id, alt_success, attempts, success_count,
                   failure_count, transcripts_data>>
    /\ UNCHANGED rvars
    /\ UNCHANGED pvars

Next ==
    \/ Start
    \/ StdCall
    \/ TryAlternative
    \/ SkipAlternative
    \/ RetryStd
    \/ Report
    \/ Finish

Spec == Init /\ [][Next]_vars

\* ------------------------------------------------ app.py parse_video_urls
MaxTokens == 4

S_HTTP == <<"H", "T", "T", "P", ":", "/", "/">>
LineBreaks == {"\n", "\r"}
SchemePrefixes == {S_http, S_https}

\* what the URL area's text is typed from
Tokens == {S_https, S_http, S_HTTP, <<"a">>, <<" ">>, <<"\n">>, <<"\r">>}

RECURSIVE Concat(_)
Concat(ts) == IF ts = <<>> THEN <<>> ELSE Head(ts) \o Concat(Tail(ts))

Texts == {Concat(ts) : ts \in UNION {[1..n -> Tokens] : n \in 0..MaxTokens}}

StartsWith(s, p) == Len(s) >= Len(p) /\ SubSeq(s, 1, Len(p)) = p

\* the length of the match of https?:// at the head of s; 0 without one
MatchLen(s) ==
    IF StartsWith(s, S_https) THEN Len(S_https)
    ELSE IF StartsWith(s, S_http) THEN Len(S_http)
    ELSE 0

\* where the leftmost match of https?:// starts, 1-based; 0 without one
FirstMatch(s) ==
    LET I == {k \in 1..Len(s) : MatchLen(SubSeq(s, k, Len(s))) > 0}
    IN  IF I = {} THEN 0 ELSE CHOOSE k \in I : \A j \in I : k <= j

\* where the leftmost character of [\n\r] is, 1-based; 0 without one
FirstBreak(s) ==
    LET I == {k \in 1..Len(s) : s[k] \in LineBreaks}
    IN  IF I = {} THEN 0 ELSE CHOOSE k \in I : \A j \in I : k <= j

RECURSIVE SkipBreaks(_)
SkipBreaks(s) ==
    IF s # <<>> /\ Head(s) \in LineBreaks THEN SkipBreaks(Tail(s)) ELSE s

RECURSIVE SplitLines(_)
\* re.split(r'[\n\r]+', s)
SplitLines(s) ==
    IF FirstBreak(s) = 0 THEN <<s>>
    ELSE <<SubSeq(s, 1, FirstBreak(s) - 1)>>
         \o SplitLines(SkipBreaks(SubSeq(s, FirstBreak(s), Len(s))))

RECURSIVE SplitAtPrefixes(_)
\* re.split(r'(https?://)', line): the texts between the matches, with each
\* match (the capturing group) between them
SplitAtPrefixes(line) ==
    IF FirstMatch(line) = 0 THEN <<line>>
    ELSE LET k == FirstMatch(line)
             n == MatchLen(SubSeq(line, k, Len(line)))
         IN  <<SubSeq(line, 1, k - 1), SubSeq(line, k, k + n - 1)>>
             \o SplitAtPrefixes(SubSeq(line, k + n, Len(line)))

RECURSIVE Reassemble(_, _)
\* lines 178-181, k = i + 1
Reassemble(potential_urls, k) ==
    IF k > Len(potential_urls) THEN <<>>
    ELSE (IF /\ Lower(potential_urls[k]) \in SchemePrefixes
             /\ k + 1 <= Len(potential_urls)
          THEN <<potential_urls[k] \o potential_urls[k + 1]>>
          ELSE <<>>)
         \o Reassemble(potential_urls, k + 1)

RECURSIVE PerLine(_)
\* lines 174-181
PerLine(lines) ==
    IF lines = <<>> THEN <<>>
    ELSE Reassemble(SplitAtPrefixes(Head(lines)), 1) \o PerLine(Tail(lines))

\* lines 171-181: urls as the loop over the lines leaves it
PerLineUrls(input_text) == PerLine(SplitLines(Strip(input_text)))

RECURSIVE NonSpaceRun(_)
\* how many characters [^\s]+ takes at the head of s
NonSpaceRun(s) ==
    IF s = <<>> \/ Head(s) \in Whitespace THEN 0 ELSE 1 + NonSpaceRun(Tail(s))

RECURSIVE FindAll(_)
\* re.findall(r'(https?://[^\s]+)', s)
FindAll(s) ==
    IF s = <<>> THEN <<>>
    ELSE LET n == MatchLen(s)
             m == NonSpaceRun(SubSeq(s, n + 1, Len(s)))
         IN  IF n > 0 /\ m > 0
             THEN <<SubSeq(s, 1, n + m)>> \o FindAll(SubSeq(s, n + m + 1, Len(s)))
             ELSE FindAll(Tail(s))

RECURSIVE Cleaned(_)
\* line 187
Cleaned(found) ==
    IF found = <<>> THEN <<>>
    ELSE (IF Strip(Head(found)) # <<>> THEN <<Strip(Head(found))>> ELSE <<>>)
         \o Cleaned(Tail(found))

parse_video_urls(input_text) ==
    Cleaned(IF PerLineUrls(input_text) = <<>> THEN FindAll(input_text)
            ELSE PerLineUrls(input_text))

\* extract_video_id and main are not running
ResolveIdle ==
    /\ inp = NoInput
    /\ raw_url = <<>>
    /\ rpc = "idle"
    /\ idApp = NoneVal
    /\ idTony = NoneVal

InitParse ==
    /\ MainIdle
    /\ ResolveIdle
    /\ video_urls_input \in Texts
    /\ ppc = "input"
    /\ urls = <<>>
    /\ scanned = FALSE

\* line 210: one call of parse_video_urls on the text of the URL area
Parse ==
    /\ ppc = "input"
    /\ urls' = parse_video_urls(video_urls_input)
    /\ scanned' = (PerLineUrls(video_urls_input) = <<>>)
    /\ ppc' = "parsed"
    /\ UNCHANGED video_urls_input
    /\ UNCHANGED rvars
    /\ UNCHANGED mvars

NextParse == Parse
SpecParse == InitParse /\ [][NextParse]_vars

\* ================================================================ claims
\* ---- identifier resolution (SpecResolve)
Resolved == rpc = "resolved"
ShortPath == <<"/">> \o ID1
\* the identifiers the v parameters of a query name, in order (a blank v names none)
VIds(ps) == SelectSeq(ps, LAMBDA q : \E id \in IDS : q = VParam(id))
IdOfParam(q) == CHOOSE id \in IDS : q = VParam(id)

\* C1: a watch URL on a canonical host whose first parameter is v=ID, followed by
\* any further parameters, resolves to ID in app.py and in tony.py; so does a
\* short link https://youtu.be/ID with or without a query.
C1_TrailingParameters ==
    (Resolved /\ ~inp.pad) =>
        /\ \A id \in IDS :
            (/\ inp.host \in CanonicalHosts
             /\ inp.path = P_watch
             /\ inp.params # <<>>
             /\ inp.params[1] = VParam(id)) => (idApp = Some(id) /\ idTony = Some(id))
        /\ (inp.host = H_short /\ inp.path = ShortPath) =>
                (idApp = Some(ID1) /\ idTony = Some(ID1))

\* C1's case: watch?v=abc123&list=xyz and youtu.be/abc123?t=5 were resolved
C1_Witness ==
    /\ Resolved
    /\ ~inp.pad
    /\ \/ /\ inp.host = H_www
          /\ inp.path = P_watch
          /\ inp.params = <<VParam(ID1), Q_list>>
       \/ /\ inp.host = H_short
          /\ inp.path = ShortPath
          /\ inp.params = <<Q_t>>
    /\ idApp = Some(ID1)
    /\ idTony = Some(ID1)

PathShapes == {P_embed \o <<"/">> \o ID1, P_v \o <<"/">> \o ID1,
               P_live \o <<"/">> \o ID1, P_shorts \o <<"/">> \o ID1}

\* C2: on a canonical host, a path with an embed, v, live or shorts segment
\* resolves to the segment that follows it, and /live/ with nothing after it
\* does not resolve.
C2_PathSegmentShapes ==
    (Resolved /\ ~inp.pad /\ inp.host \in CanonicalHosts) =>
        /\ inp.path \in PathShapes => idApp = Some(ID1)
        /\ inp.path = P_live \o <<"/">> => ~Truthy(idApp)

\* C10: a watch URL on a canonical host resolves to the value of its v
\* parameter wherever v stands in the query, and fails only without one.
C10_PositionIndependentV ==
    (Resolved /\ ~inp.pad /\ inp.host \in CanonicalHosts /\ inp.path = P_watch) =>
        IF VIds(inp.params) # <<>>
        THEN idApp = Some(IdOfParam(VIds(inp.params)[1]))
        ELSE ~Truthy(idApp)

\* ---- the batch loop of app.py (Spec)
Captions(k) == attempts[k].strategy = "captions"
Page(k) == attempts[k].strategy = "page"
Tried == 1..Len(attempts)
\* the video at hand has been through its strategies
Processed == pc = "report"
AltSucceeded == \E k \in Tried : Page(k) /\ attempts[k].ok
RECURSIVE Count(_, _)
Count(seq, x) ==
    IF seq = <<>> THEN 0 ELSE (IF Head(seq) = x THEN 1 ELSE 0) + Count(Tail(seq), x)

\* C3: when the first strategy succeeds for a video, the page strategy is not
\* invoked for it, whatever the experimental flag; the first call is the only one.
C3_ShortCircuit ==
    (attempts # <<>> /\ attempts[1].ok) =>
        /\ Len(attempts) = 1
        /\ \A k \in Tried : ~Page(k)

\* C3's case: the flag is on, the first strategy succeeded, the video is done
C3_Witness ==
    /\ Processed
    /\ use_browser
    /\ attempts # <<>>
    /\ Captions(1)
    /\ attempts[1].ok
    /\ success

C5_RetryCeiling ==
    \A k \in Tried :
        (Page(k) /\ attempts[k].page \in {"non200", "exception"}) =>
            Count(attempts[k].gets, "page") = 3

HasTrack(s, l) == l \in s.manual \cup s.generated

\* C6: with captions on and at least one track, the captions strategy succeeds
\* for every preference, with the preferred language if it has a track, else a
\* generated track if there is one, else a manual one.
C6_LanguageFallback ==
    (/\ pc = "after_std"
     /\ Truthy(video_id)
     /\ attempts[1].clean
     /\ ~svc.disabled
     /\ svc.manual \cup svc.generated # {}) =>
        /\ success
        /\ transcript_text.kind = "transcript"
        /\ IF HasTrack(svc, language_preference)
           THEN transcript_text.track.lang = language_preference
           ELSE transcript_text.track.is_generated = (svc.generated # {})

\* C7: get_youtube_transcript returns a triple whatever the library raises and
\* wherever: no exception gets through to main, and success is False unless a
\* transcript text was obtained.
C7_EveryOutcomeIsAValue ==
    /\ pc # "crashed"
    /\ \A k \in Tried :
        Captions(k) => /\ attempts[k].raised = "none"
                       /\ attempts[k].ok <=> attempts[k].obtained

\* C7's case: the first call, the retry of line 67, list_transcripts and fetch
\* were all made, fetch raised, and the function returned a failure
C7_Witness ==
    \E k \in Tried :
        /\ Captions(k)
        /\ attempts[k].lib = 4
        /\ ~attempts[k].ok
        /\ attempts[k].raised = "none"

\* C8: for an input that yields no identifier (another host: None; a short link
\* with nothing after the host: ""), get_youtube_transcript fails without a
\* library call and the page strategy is not invoked, flag or no flag.
C8_NoIdentifierStops ==
    (pc \in {"after_std", "retry", "report"} /\ video_urls[i] \in NoIdUrls) =>
        /\ ~Truthy(video_id)
        /\ video_urls[i] = U(H_other, P_watch, <<VParam(ID1)>>) => video_id = NoneVal
        /\ ~success
        /\ Len(attempts) = 1
        /\ Captions(1)
        /\ attempts[1].lib = 0
        /\ pc # "retry"

\* C8's case: the flag is on and the short link without an identifier is done
C8_Witness ==
    /\ Processed
    /\ use_browser
    /\ video_urls[i] = U(H_short, P_root, <<>>)
    /\ video_id = Some(<<>>)
    /\ ~success

\* C9: every call of get_youtube_transcript for a video is given the caller's
\* language preference.
C9_PreferencePassedThrough ==
    \A k \in Tried : Captions(k) => attempts[k].pref = PrefArg(language_preference)

\* ---------------------------------------------------------------- C11
Parsed == ppc = "parsed"

\* the places of t where one of the literal prefixes http:// and https:// starts
Occurrences(t) ==
    {k \in 1..Len(t) : \E p \in SchemePrefixes :
        k + Len(p) - 1 <= Len(t) /\ SubSeq(t, k, k + Len(p) - 1) = p}

\* the first place after k where a prefix or a line break starts, or the end
CandidateEnd(t, k) ==
    LET E == {j \in (k + 1)..Len(t) : j \in Occurrences(t) \/ t[j] \in LineBreaks}
    IN  IF E = {} THEN Len(t) + 1 ELSE CHOOSE j \in E : \A e \in E : j <= e

\* the j-th occurrence, in order of appearance
NthOccurrence(t, j) ==
    CHOOSE k \in Occurrences(t) : Cardinality({m \in Occurrences(t) : m < k}) = j - 1

\* one candidate per occurrence: the prefix and the text after it up to the
\* next occurrence or the end of the line, trimmed
Candidates(t) ==
    [j \in 1..Cardinality(Occurrences(t)) |->
        Strip(SubSeq(t, NthOccurrence(t, j), CandidateEnd(t, NthOccurrence(t, j)) - 1))]

\* C11: for every input text parse_video_urls returns, in order of appearance,
\* exactly one candidate per occurrence of http:// or https://, each the
\* prefix with the text up to the next occurrence or the end of the line,
\* trimmed; no candidate holds a line break or a second prefix; the result is
\* empty exactly when the text has no prefix; and the whole-text scan is
\* consulted only when the split by lines gave no candidate.
C11_UrlSplitting ==
    Parsed =>
        /\ urls = Candidates(video_urls_input)
        /\ \A k \in 1..Len(urls) :
              /\ \A j \in 1..Len(urls[k]) : urls[k][j] \notin LineBreaks
              /\ Occurrences(urls[k]) = {1}
        /\ (urls = <<>>) <=> (Occurrences(video_urls_input) = {})
        /\ scanned => Occurrences(video_urls_input) = {}

====
